---- MODULE Spec2Model ----
(***************************************************************************)
(* One-time secret service (FastAPI application).                          *)
(*                                                                         *)
(*   app/cache.py       the in-memory store secrets_cache and the sweeper  *)
(*   app/encryption.py  the Fernet gateway                                 *)
(*   app/main.py        the three endpoints, log_event and lifespan        *)
(*                                                                         *)
(* The endpoints are "async def" bodies without a single await, and        *)
(* log_event is a blocking call: each handler body runs on the event loop  *)
(* from its first to its last line with nothing interleaved.  The only     *)
(* suspension points are in the middleware (await call_next, before and    *)
(* after the handler body) and in the sweeper (await asyncio.sleep).       *)
(* A request is therefore "pending" (received, handler body not yet run),  *)
(* then "done" (handler body ran, response on its way out).                *)
(***************************************************************************)
EXTENDS Integers, FiniteSets, Sequences, TLC

VARIABLES
    now,            \* datetime.now(), in seconds
    secrets_cache,  \* cache.py:15, a dict: DOMAIN = the keys present
    reqs,           \* the requests in flight, per connection
    sweeper,        \* the clear_expired_secrets task: where it stands
    wake_at,        \* the instant its asyncio.sleep(60) is over
    issued,         \* history: how often uuid4 returned each key
    born,           \* history: when each record of secrets_cache was added
    origin,         \* history: the plaintext each record was created from
    reads_ok,       \* history: reads of a key that returned a secret
    fate            \* history: what last happened to a key's record

vars == <<now, secrets_cache, reqs, sweeper, wake_at,
          issued, born, origin, reads_ok, fate>>

----------------------------------------------------------------------------
(* Program constants *)

FloorTTL == 300

SweepInterval == 60

DefaultTTL == 300

(* Bounds of the model *)

MaxCreates == 2

Keys == {"k1", "k2"}

Reqs == {1, 2}

Secrets == {"s1", "s2"}

\* Python's None, where a str is optional
None == "<None>"

\* passphrase: str of CreateSecretRequest (required, may be empty)
Passphrases == {"", "pw"}

\* passphrase: str = None of the DELETE query string
Supplied == {None, "", "pw", "bad"}

TTLs == {-1, 0, DefaultTTL, FloorTTL + 1}

\* the instants at which the event loop takes a step: the floor's last live
\* second, the second it ends, the next one, and a sweep interval later
Instants == {0, FloorTTL - 1, FloorTTL, FloorTTL + 1, FloorTTL + SweepInterval}

\* the instants of the runs with requests in flight on two connections
RaceInstants == {0, FloorTTL}

\* the runs of SpecLive create their records in their first LastPost seconds,
\* so that their clock reaches every expiration
LastPost == 60

\* the instants of SpecLive: around the expiration of a record created at 0,
\* a sweep interval later, and past the expiration of the last record created
LiveInstants ==
    {0, LastPost, FloorTTL - 1, FloorTTL, FloorTTL + SweepInterval,
     FloorTTL + SweepInterval + 1, LastPost + FloorTTL + SweepInterval + 1}

ENCRYPTION_KEY == "key"

Max(a, b) == IF a >= b THEN a ELSE b

\* bool(x) of a str or None
Truthy(x) == x # None /\ x # ""

----------------------------------------------------------------------------
(* app/encryption.py *)

encrypt_data(data) == [fernet |-> ENCRYPTION_KEY, data |-> data]

decrypt_ok(encrypted_data) == encrypted_data.fernet = ENCRYPTION_KEY

decrypt_data(encrypted_data) == encrypted_data.data

\* the call of decrypt_data at main.py:101 raises: the token does not verify
\* under the key, or the call itself fails ("except Exception" takes both)
decrypt_raises(encrypted_data, outcome) ==
    ~decrypt_ok(encrypted_data) \/ outcome = "decrypt"

----------------------------------------------------------------------------
(* app/cache.py *)

SecretEntry(encrypted_secret, passphrase, expiration) ==
    [encrypted_secret |-> encrypted_secret,
     passphrase |-> passphrase,
     expiration |-> expiration]

\* add_secret with min for max: the floor becomes a ceiling
add_secret_min(cache, secret_key, encrypted_secret, passphrase, ttl_seconds, t) ==
    LET ttl == IF ttl_seconds <= FloorTTL THEN ttl_seconds ELSE FloorTTL
        expiration_time == t + ttl
    IN  [k \in DOMAIN cache \cup {secret_key} |->
            IF k = secret_key
            THEN SecretEntry(encrypted_secret, passphrase, expiration_time)
            ELSE cache[k]]

add_secret(cache, secret_key, encrypted_secret, passphrase, ttl_seconds, t) ==
    LET ttl == Max(ttl_seconds, FloorTTL)
        expiration_time == t + ttl
    IN  [k \in DOMAIN cache \cup {secret_key} |->
            IF k = secret_key
            THEN SecretEntry(encrypted_secret, passphrase, expiration_time)
            ELSE cache[k]]

\* delete_secret that empties the dict
delete_secret_all(cache, secret_key) ==
    IF secret_key \in DOMAIN cache THEN << >> ELSE cache

\* delete_secret that forgets the del
delete_secret_kept(cache, secret_key) == cache

delete_secret(cache, secret_key) ==
    IF secret_key \in DOMAIN cache
    THEN [k \in DOMAIN cache \ {secret_key} |-> cache[k]]
    ELSE cache

\* get_secret with <= for <: a record is served in the second it expires
get_secret_found_late(cache, secret_key, t) ==
    /\ secret_key \in DOMAIN cache
    /\ t <= cache[secret_key].expiration

\* get_secret returns an entry (TRUE) or None (FALSE) ...
get_secret_found(cache, secret_key, t) ==
    /\ secret_key \in DOMAIN cache
    /\ t < cache[secret_key].expiration

\* get_secret without its else branch: an expired entry is left where it is
get_secret_cache_kept(cache, secret_key, t) == cache

\* ... and deletes the entry it finds expired
get_secret_cache(cache, secret_key, t) ==
    IF secret_key \in DOMAIN cache /\ ~(t < cache[secret_key].expiration)
    THEN [k \in DOMAIN cache \ {secret_key} |-> cache[k]]
    ELSE cache

\* a pass with > for >=: a record is left in the second it expires
RECURSIVE clear_pass_strict(_, _, _)
clear_pass_strict(cache, keys, t) ==
    IF keys = {} THEN cache
    ELSE LET key == CHOOSE k \in keys : TRUE
             rest == clear_pass_strict(cache, keys \ {key}, t)
         IN  IF t > cache[key].expiration
             THEN delete_secret(rest, key)
             ELSE rest

\* one pass of clear_expired_secrets over the keys it listed
RECURSIVE clear_pass(_, _, _)
clear_pass(cache, keys, t) ==
    IF keys = {} THEN cache
    ELSE LET key == CHOOSE k \in keys : TRUE
             rest == clear_pass(cache, keys \ {key}, t)
         IN  IF t >= cache[key].expiration
             THEN delete_secret(rest, key)
             ELSE rest

----------------------------------------------------------------------------
(* app/main.py: the responses *)

HTTPException(status_code, detail) ==
    [status_code |-> status_code, detail |-> detail]

\* main.py:97-98, raised by get_secret_endpoint
NotFound == HTTPException(404, "secret not found or expired")

\* a delete that words its 404 differently
NotFoundOnDelete_reworded == HTTPException(404, "secret already deleted")

\* main.py:122-123, raised by delete_secret_endpoint
NotFoundOnDelete == HTTPException(404, "secret not found or expired")

DecryptionError == HTTPException(500, "error while decrypting the secret")

PassphraseMismatch == HTTPException(403, "wrong passphrase for deleting the secret")

\* an exception that leaves the handler: the server answers 500
ServerError == HTTPException(500, "Internal Server Error")

CreateSecretResponse(secret_key) == [status_code |-> 200, secret_key |-> secret_key]

GetSecretResponce(secret) == [status_code |-> 200, secret |-> secret]

DeleteSecretResponse == [status_code |-> 200, status |-> "secret deleted"]

----------------------------------------------------------------------------
(* app/main.py: log_event.  Each of its four calls into the audit database *)
(* may raise; "ok" is the run in which none does.                          *)

LogOutcomes == {"ok", "session", "add", "commit", "close"}

\* SessionLocal() stands before the try, db.close() in the finally: what
\* they raise leaves log_event; what add and commit raise is printed.
log_event_raises(outcome) == outcome \in {"session", "close"}

\* the row is in the logs table once commit returned
log_event_commits(outcome) == outcome \in {"ok", "close"}

\* the rows a handler wrote to the logs table
log_event(secret_key, action, outcome) ==
    IF log_event_commits(outcome) THEN {<<secret_key, action>>} ELSE {}

----------------------------------------------------------------------------
(* The requests *)

Idle == [pc |-> "idle"]

CreateRequests ==
    { [pc |-> "pending", method |-> "POST", secret |-> s, passphrase |-> p, ttl |-> t] :
        s \in Secrets, p \in Passphrases, t \in TTLs }

GetRequests ==
    { [pc |-> "pending", method |-> "GET", secret_key |-> k] : k \in Keys }

DeleteRequests ==
    { [pc |-> "pending", method |-> "DELETE", secret_key |-> k, passphrase |-> p] :
        k \in Keys, p \in Supplied }

\* a handler that ran: the key it worked on, its response, the audit rows it wrote
Done(method, secret_key, resp, rows) ==
    [pc |-> "done", method |-> method, secret_key |-> secret_key,
     resp |-> resp, logged |-> rows]

Pending(r, method) == reqs[r].pc = "pending" /\ reqs[r].method = method

\* the event loop runs one callback at a time, and a pass of the sweeper has
\* no await in it
LoopFree == sweeper # "sweeping"

RECURSIVE SumIssued(_)
SumIssued(S) ==
    IF S = {} THEN 0
    ELSE LET k == CHOOSE x \in S : TRUE IN issued[k] + SumIssued(S \ {k})

\* creates received so far: handled, or waiting for their handler
Creates == SumIssued(Keys) + Cardinality({r \in Reqs : Pending(r, "POST")})

\* the history of the records that are in the cache
Kept(hist, cache) == [k \in DOMAIN cache |-> hist[k]]

SweeperVars == <<sweeper, wake_at>>

Init ==
    /\ now = 0
    /\ secrets_cache = << >>
    /\ reqs = [r \in Reqs |-> Idle]
    /\ sweeper = "idle"
    /\ wake_at = 0
    /\ issued = [k \in Keys |-> 0]
    /\ born = << >>
    /\ origin = << >>
    /\ reads_ok = [k \in Keys |-> 0]
    /\ fate = [k \in Keys |-> "never"]

Tick(t) ==
    /\ LoopFree
    /\ t > now
    /\ now' = t
    /\ UNCHANGED <<secrets_cache, reqs, SweeperVars, issued, born, origin, reads_ok, fate>>

\* a request arrives on a connection that has none in flight (on the first
\* such connection: which one it is makes no difference)
Receive(r, request) ==
    /\ LoopFree
    /\ sweeper # "stopped"
    /\ reqs[r] = Idle
    /\ \A q \in Reqs : reqs[q] = Idle => ~(q < r)
    /\ reqs' = [reqs EXCEPT ![r] = request]
    /\ UNCHANGED <<now, secrets_cache, SweeperVars, issued, born, origin, reads_ok, fate>>

Respond(r) ==
    /\ LoopFree
    /\ reqs[r].pc = "done"
    /\ reqs' = [reqs EXCEPT ![r] = Idle]
    /\ UNCHANGED <<now, secrets_cache, SweeperVars, issued, born, origin, reads_ok, fate>>

----------------------------------------------------------------------------
(* app/main.py: the handlers.  Each is one step of the event loop. *)

\* str(uuid.uuid4()): 122 random bits.  A value may come a second time ...
uuid4 == Keys

\* ... which a generator of unique identifiers never lets happen
uuid4_unique == {k \in Keys : issued[k] = 0}

\* what became of the record of key k in a step that took it out of the cache
Gone(k, how) ==
    IF k \in DOMAIN secrets_cache /\ k \notin DOMAIN secrets_cache'
    THEN [fate EXCEPT ![k] = how]
    ELSE fate

create_secret(r, secret_key, outcome) ==
    /\ LoopFree
    /\ Pending(r, "POST")
    /\ LET payload == reqs[r]
           encrypted == encrypt_data(payload.secret)
           ttl == Max(payload.ttl, FloorTTL)
       IN  /\ secrets_cache' =
                 add_secret(secrets_cache, secret_key, encrypted, payload.passphrase, ttl, now)
           /\ reqs' = [reqs EXCEPT ![r] =
                 Done("POST", secret_key,
                      IF log_event_raises(outcome) THEN ServerError
                      ELSE CreateSecretResponse(secret_key),
                      log_event(secret_key, "create", outcome))]
           /\ issued' = [issued EXCEPT ![secret_key] = @ + 1]
           /\ born' = [k \in DOMAIN secrets_cache' |->
                          IF k = secret_key THEN now ELSE born[k]]
           /\ origin' = [k \in DOMAIN secrets_cache' |->
                          IF k = secret_key THEN payload.secret ELSE origin[k]]
           /\ fate' = [fate EXCEPT ![secret_key] = "stored"]
    /\ UNCHANGED <<now, SweeperVars, reads_ok>>

get_secret_endpoint(r, outcome) ==
    /\ LoopFree
    /\ Pending(r, "GET")
    /\ LET secret_key == reqs[r].secret_key
           found == get_secret_found(secrets_cache, secret_key, now)
           cache1 == get_secret_cache(secrets_cache, secret_key, now)
       IN  IF ~found
           THEN /\ secrets_cache' = cache1
                /\ reqs' = [reqs EXCEPT ![r] = Done("GET", secret_key, NotFound, {})]
                /\ fate' = Gone(secret_key, "evicted")
                /\ UNCHANGED reads_ok
           ELSE LET entry == secrets_cache[secret_key] IN
                IF decrypt_raises(entry.encrypted_secret, outcome)
                THEN /\ secrets_cache' = cache1
                     /\ reqs' = [reqs EXCEPT ![r] =
                           Done("GET", secret_key, DecryptionError, {})]
                     /\ UNCHANGED <<reads_ok, fate>>
                ELSE LET plain_text == decrypt_data(entry.encrypted_secret) IN
                     /\ secrets_cache' = delete_secret(cache1, secret_key)
                     /\ reqs' = [reqs EXCEPT ![r] =
                           Done("GET", secret_key,
                                IF log_event_raises(outcome) THEN ServerError
                                ELSE GetSecretResponce(plain_text),
                                log_event(secret_key, "read", outcome))]
                     /\ reads_ok' = [reads_ok EXCEPT ![secret_key] =
                           IF log_event_raises(outcome) THEN @ ELSE @ + 1]
                     /\ fate' = Gone(secret_key, "read")
    /\ born' = Kept(born, secrets_cache')
    /\ origin' = Kept(origin, secrets_cache')
    /\ UNCHANGED <<now, SweeperVars, issued>>

\* the check skipped when the request brings no passphrase
passphrase_rejected_if_given(entry_passphrase, passphrase) ==
    /\ Truthy(entry_passphrase)
    /\ Truthy(passphrase)
    /\ passphrase # entry_passphrase

\* main.py:126-127
passphrase_rejected(entry_passphrase, passphrase) ==
    /\ Truthy(entry_passphrase)
    /\ (~Truthy(passphrase) \/ passphrase # entry_passphrase)

delete_secret_endpoint(r, outcome) ==
    /\ LoopFree
    /\ Pending(r, "DELETE")
    /\ LET secret_key == reqs[r].secret_key
           passphrase == reqs[r].passphrase
           found == get_secret_found(secrets_cache, secret_key, now)
           cache1 == get_secret_cache(secrets_cache, secret_key, now)
       IN  IF ~found
           THEN /\ secrets_cache' = cache1
                /\ reqs' = [reqs EXCEPT ![r] = Done("DELETE", secret_key, NotFoundOnDelete, {})]
                /\ fate' = Gone(secret_key, "evicted")
           ELSE LET entry == secrets_cache[secret_key] IN
                IF passphrase_rejected(entry.passphrase, passphrase)
                THEN /\ secrets_cache' = cache1
                     /\ reqs' = [reqs EXCEPT ![r] =
                           Done("DELETE", secret_key, PassphraseMismatch, {})]
                     /\ UNCHANGED fate
                ELSE /\ secrets_cache' = delete_secret(cache1, secret_key)
                     /\ reqs' = [reqs EXCEPT ![r] =
                           Done("DELETE", secret_key,
                                IF log_event_raises(outcome) THEN ServerError
                                ELSE DeleteSecretResponse,
                                log_event(secret_key, "delete", outcome))]
                     /\ fate' = Gone(secret_key, "deleted")
    /\ born' = Kept(born, secrets_cache')
    /\ origin' = Kept(origin, secrets_cache')
    /\ UNCHANGED <<now, SweeperVars, issued, reads_ok>>

----------------------------------------------------------------------------
(* app/cache.py: clear_expired_secrets, and its task in lifespan *)

\* a task that goes on with its loop after task.cancel()
Sweep_after_cancel ==
    /\ sweeper \in {"idle", "stopped"}
    /\ now >= wake_at
    /\ sweeper' = "sweeping"
    /\ secrets_cache' = clear_pass(secrets_cache, DOMAIN secrets_cache, now)
    /\ fate' = [k \in Keys |->
                  IF k \in DOMAIN secrets_cache /\ k \notin DOMAIN secrets_cache'
                  THEN "swept" ELSE fate[k]]
    /\ born' = Kept(born, secrets_cache')
    /\ origin' = Kept(origin, secrets_cache')
    /\ UNCHANGED <<now, reqs, wake_at, issued, reads_ok>>

\* one pass: the for loop, from list(secrets_cache.keys()) to its last key
Sweep ==
    /\ sweeper = "idle"
    /\ now >= wake_at
    /\ sweeper' = "sweeping"
    /\ secrets_cache' = clear_pass(secrets_cache, DOMAIN secrets_cache, now)
    /\ fate' = [k \in Keys |->
                  IF k \in DOMAIN secrets_cache /\ k \notin DOMAIN secrets_cache'
                  THEN "swept" ELSE fate[k]]
    /\ born' = Kept(born, secrets_cache')
    /\ origin' = Kept(origin, secrets_cache')
    /\ UNCHANGED <<now, reqs, wake_at, issued, reads_ok>>

\* a pass in which a statement of the for loop raises, once the keys in
\* "examined" were dealt with: nothing in clear_expired_secrets catches the
\* exception, it ends the coroutine and the task is finished
SweepRaises ==
    /\ sweeper = "idle"
    /\ now >= wake_at
    /\ sweeper' = "failed"
    /\ \E examined \in SUBSET DOMAIN secrets_cache :
          secrets_cache' = clear_pass(secrets_cache, examined, now)
    /\ fate' = [k \in Keys |->
                  IF k \in DOMAIN secrets_cache /\ k \notin DOMAIN secrets_cache'
                  THEN "swept" ELSE fate[k]]
    /\ born' = Kept(born, secrets_cache')
    /\ origin' = Kept(origin, secrets_cache')
    /\ UNCHANGED <<now, reqs, wake_at, issued, reads_ok>>

\* a sleep of an hour
Sleep_hour ==
    /\ sweeper = "sweeping"
    /\ sweeper' = "idle"
    /\ wake_at' = now + 60 * SweepInterval
    /\ UNCHANGED <<now, secrets_cache, reqs, issued, born, origin, reads_ok, fate>>

\* await asyncio.sleep(60)
Sleep ==
    /\ sweeper = "sweeping"
    /\ sweeper' = "idle"
    /\ wake_at' = now + SweepInterval
    /\ UNCHANGED <<now, secrets_cache, reqs, issued, born, origin, reads_ok, fate>>

\* lifespan's finally: task.cancel(), once the server has answered its requests.
\* The CancelledError is thrown into the task at its await.
Shutdown ==
    /\ sweeper = "idle"
    /\ \A r \in Reqs : reqs[r] = Idle
    /\ sweeper' = "stopped"
    /\ UNCHANGED <<now, secrets_cache, reqs, wake_at, issued, born, origin, reads_ok, fate>>

----------------------------------------------------------------------------
(* The specifications.  The handlers run one at a time, so a request that  *)
(* waits for its handler changes nothing: the runs of the service with     *)
(* requests in flight on several connections take the same handler steps   *)
(* as its runs with one request at a time.  Spec is the service with one   *)
(* request at a time, over the whole clock; SpecRace is the service with   *)
(* requests in flight on two connections; SpecCollide is the service with  *)
(* a uuid4 that may return a value a second time; SpecFault is the service *)
(* in which decrypt_data and a pass of the sweeper may raise; SpecLive is   *)
(* the service whose event loop runs the sweeper when it is ready, while   *)
(* time passes.  Creates come in on connection 1.                          *)

Clock(instants) == \E t \in instants : Tick(t)

Traffic(conns) ==
    \/ \E r \in conns : \E q \in GetRequests \cup DeleteRequests : Receive(r, q)
    \/ \E r \in conns : Respond(r)
    \/ \E r \in conns : \E o \in LogOutcomes : get_secret_endpoint(r, o)
    \/ \E r \in conns : \E o \in LogOutcomes : delete_secret_endpoint(r, o)

Posts(conns, limit) ==
    \E r \in conns : \E q \in CreateRequests : Creates < limit /\ Receive(r, q)

Sweeper ==
    \/ Sweep
    \/ Sleep
    \/ Shutdown

Next ==
    \/ Clock(Instants)
    \/ Traffic({1})
    \/ Posts({1}, Cardinality(Keys))
    \/ \E k \in uuid4_unique : \E o \in LogOutcomes : create_secret(1, k, o)
    \/ Sweeper

Spec == Init /\ [][Next]_vars

NextRace ==
    \/ Clock(RaceInstants)
    \/ Traffic(Reqs)
    \/ Posts({1}, Cardinality(Keys))
    \/ \E k \in uuid4_unique : \E o \in LogOutcomes : create_secret(1, k, o)
    \/ Sweeper

SpecRace == Init /\ [][NextRace]_vars

NextCollide ==
    \/ Clock(Instants)
    \/ Traffic({1})
    \/ Posts({1}, MaxCreates)
    \/ \E k \in uuid4 : \E o \in LogOutcomes : create_secret(1, k, o)
    \/ Sweeper

SpecCollide == Init /\ [][NextCollide]_vars

NextFault ==
    \/ Clock(RaceInstants)
    \/ Traffic({1})
    \/ Posts({1}, Cardinality(Keys))
    \/ \E k \in uuid4_unique : \E o \in LogOutcomes : create_secret(1, k, o)
    \/ get_secret_endpoint(1, "decrypt")
    \/ Sweeper
    \/ SweepRaises

SpecFault == Init /\ [][NextFault]_vars

NextLive ==
    \/ Clock(LiveInstants)
    \/ Traffic({1})
    \/ now <= LastPost /\ Posts({1}, Cardinality(Keys))
    \/ \E k \in uuid4_unique : \E o \in LogOutcomes :
          now <= LastPost /\ create_secret(1, k, o)
    \/ Sweeper

\* the event loop runs what is ready, and time passes: a pass whose sleep is
\* over runs (how late, nothing in the code says), the sleep after a pass
\* begins, the clock goes on
SpecLive ==
    /\ Init
    /\ [][NextLive]_vars
    /\ WF_vars(Sweep)
    /\ WF_vars(Sleep)
    /\ WF_vars(Clock(LiveInstants))

----------------------------------------------------------------------------
(* The claims *)

\* the handler of the request on connection r runs in this step
Handled(r) == reqs[r].pc = "pending" /\ reqs'[r].pc = "done"

Live(k) == k \in DOMAIN secrets_cache /\ now < secrets_cache[k].expiration

ReturnedSecret(resp) == \E s \in Secrets : resp = GetSecretResponce(s)

\* the read or delete request on connection r, whose handler runs in this step
Asked(r) == Handled(r) /\ reqs[r].method \in {"GET", "DELETE"}

\* C1: read-once.  At most one read of a key ever returns a secret; once one
\* has, the key is not in secrets_cache and every later read of it is
\* answered NotFound (404).
C1_ReadOnce ==
    /\ [](\A k \in Keys :
            /\ reads_ok[k] <= 1
            /\ reads_ok[k] = 1 => k \notin DOMAIN secrets_cache)
    /\ [][\A r \in Reqs :
            (Handled(r) /\ reqs[r].method = "GET" /\ reads_ok[reqs[r].secret_key] >= 1)
                => reqs'[r].resp = NotFound]_vars

\* a read of a key that was read before has just been answered 404
C1_Witness ==
    \E r \in Reqs :
        /\ reqs[r].pc = "done"
        /\ reqs[r].method = "GET"
        /\ reqs[r].resp = NotFound
        /\ reads_ok[reqs[r].secret_key] = 1

\* C2: two concurrent reads of one key.  With a live record for the key and
\* two reads of it in flight, exactly one is answered the secret and the other
\* NotFound: the one whose handler runs first gets the secret, and the one
\* whose handler runs after a read that was served gets 404.
C2_OneWinner ==
    [][\A r, q \in Reqs :
          (r # q /\ Handled(r) /\ reqs[r].method = "GET"
             /\ reqs[q].pc # "idle" /\ reqs[q].method = "GET"
             /\ reqs[q].secret_key = reqs[r].secret_key)
          => LET k == reqs[r].secret_key IN
             /\ (reqs[q].pc = "pending" /\ Live(k))
                   => /\ reqs'[r].resp = GetSecretResponce(origin[k])
                      /\ k \notin DOMAIN secrets_cache'
             /\ (reqs[q].pc = "done" /\ ReturnedSecret(reqs[q].resp))
                   => reqs'[r].resp = NotFound]_vars

\* C3: no expired record is visible.  Whenever get_secret returns an entry
\* (the request is answered anything but 404), the record is in the cache and
\* the clock read by that call is before its expiration; a record with
\* expiration <= now is never returned.
C3_NoExpiredVisible ==
    [][\A r \in Reqs :
          Asked(r) =>
            LET k == reqs[r].secret_key IN
            /\ reqs'[r].resp.status_code # 404 => Live(k)
            /\ (k \in DOMAIN secrets_cache /\ secrets_cache[k].expiration <= now)
                  => reqs'[r].resp.status_code = 404]_vars

\* a request found a record the sweeper had not removed, in the very second
\* it expired, and was answered 404
C3_Witness ==
    \E r \in Reqs :
        /\ reqs[r].pc = "done"
        /\ reqs[r].resp.status_code = 404
        /\ fate[reqs[r].secret_key] = "evicted"
        /\ now = FloorTTL

\* C4: floor TTL.  The record a create stores has expiration = creation time
\* + max(ttl, 300) for every ttl; no record lives less than 300 s: a read or
\* delete less than 300 s after the creation finds it, and before that only a
\* read or a delete takes it out of the cache, never the sweeper.
C4_FloorTTL ==
    /\ [](\A k \in DOMAIN secrets_cache :
            secrets_cache[k].expiration >= born[k] + 300)
    /\ [][\A r \in Reqs :
            (Handled(r) /\ reqs[r].method = "POST") =>
                LET k == reqs'[r].secret_key IN
                /\ k \in DOMAIN secrets_cache'
                /\ secrets_cache'[k].expiration =
                      now + (IF reqs[r].ttl >= 300 THEN reqs[r].ttl ELSE 300)]_vars
    /\ [][\A r \in Reqs :
            (Asked(r) /\ reqs[r].secret_key \in DOMAIN secrets_cache
                      /\ now < born[reqs[r].secret_key] + 300)
                => reqs'[r].resp.status_code # 404]_vars
    /\ [][\A k \in DOMAIN secrets_cache :
            (k \notin DOMAIN secrets_cache' /\ now < born[k] + 300)
                => fate'[k] \in {"read", "deleted"}]_vars

\* a record created with a ttl below the floor has just survived a pass of the
\* sweeper 299 s after its creation
C4_Witness ==
    \E k \in DOMAIN secrets_cache :
        /\ sweeper = "sweeping"
        /\ now = born[k] + 299
        /\ secrets_cache[k].expiration = born[k] + 300

\* C5 as claimed: a delete whose passphrase is missing or is not the record's
\* is answered 403 and leaves the cache as it was, whatever passphrase the
\* record was created with, the empty string included.
C5_MismatchAnyPassphrase ==
    [][\A r \in Reqs :
          (Handled(r) /\ reqs[r].method = "DELETE" /\ Live(reqs[r].secret_key)
             /\ reqs[r].passphrase # secrets_cache[reqs[r].secret_key].passphrase)
          => /\ reqs'[r].resp = PassphraseMismatch
             /\ secrets_cache' = secrets_cache]_vars

\* C5, amended: for a live record created with a non-empty passphrase, a delete
\* whose passphrase is missing or is not exactly the record's is answered 403
\* and leaves secrets_cache unchanged: the record is still there.
C5_MismatchNoEffect ==
    [][\A r \in Reqs :
          (Handled(r) /\ reqs[r].method = "DELETE" /\ Live(reqs[r].secret_key)
             /\ secrets_cache[reqs[r].secret_key].passphrase # ""
             /\ reqs[r].passphrase # secrets_cache[reqs[r].secret_key].passphrase)
          => /\ reqs'[r].resp = PassphraseMismatch
             /\ secrets_cache' = secrets_cache
             /\ Live(reqs[r].secret_key)']_vars

\* a delete without a passphrase has just been refused, and the record is there
C5_Witness ==
    \E r \in Reqs :
        /\ reqs[r].pc = "done"
        /\ reqs[r].method = "DELETE"
        /\ reqs[r].resp = PassphraseMismatch
        /\ Live(reqs[r].secret_key)

\* C6: successful deletion.  A delete of a live record that brings exactly the
\* record's passphrase is answered Deleted (200) and removes the record.
C6_DeleteSucceeds ==
    [][\A r \in Reqs :
          (Handled(r) /\ reqs[r].method = "DELETE" /\ Live(reqs[r].secret_key)
             /\ reqs[r].passphrase = secrets_cache[reqs[r].secret_key].passphrase)
          => /\ reqs'[r].resp = DeleteSecretResponse
             /\ reqs[r].secret_key \notin DOMAIN secrets_cache']_vars

\* C7: round trip.  A read of a key whose record is live returns exactly the
\* secret text of the create that stored the record under that key.
C7_RoundTrip ==
    [][\A r \in Reqs :
          (Handled(r) /\ reqs[r].method = "GET" /\ Live(reqs[r].secret_key))
          => reqs'[r].resp = GetSecretResponce(origin[reqs[r].secret_key])]_vars

\* C8: key uniqueness on insert.  A create never replaces the ciphertext, the
\* passphrase or the expiration of a record that is in the store.
C8_NoOverwrite ==
    [][\A k \in DOMAIN secrets_cache :
          k \in DOMAIN secrets_cache' => secrets_cache'[k] = secrets_cache[k]]_vars

\* C9: audit logging is best-effort.  No failure of the audit write turns a
\* request into an error response: a create is answered its key, and a read or
\* delete that got past the lookup, the decryption and the passphrase check is
\* answered 200.
C9_AuditBestEffort ==
    [][\A r \in Reqs :
          Handled(r) =>
            /\ reqs'[r].resp # ServerError
            /\ reqs[r].method = "POST"
                  => reqs'[r].resp = CreateSecretResponse(reqs'[r].secret_key)]_vars

\* C10: NotFound tells nothing of a key's history.  A read and a delete of a
\* key that has no live record get one and the same response, status 404 with
\* one detail, whether the key was never created, was read, was deleted, was
\* swept, or is expired and not yet swept.
C10_NotFoundUniform ==
    [][\A r \in Reqs :
          (Asked(r) /\ ~Live(reqs[r].secret_key))
            => reqs'[r].resp = [status_code |-> 404,
                                detail |-> "secret not found or expired"]]_vars

\* a delete of a key the sweeper removed has just been answered 404, while the
\* other key was never created
C10_Witness ==
    \E r \in Reqs :
        /\ reqs[r].pc = "done"
        /\ reqs[r].method = "DELETE"
        /\ reqs[r].resp.status_code = 404
        /\ fate[reqs[r].secret_key] = "swept"
        /\ \E k \in Keys : fate[k] = "never"

\* C11: a read removes the record in the step that finds it.  After a read
\* that found a live record for its key, the key is not in secrets_cache when
\* the request completes, whatever the decryption that follows the lookup
\* does, a failure (500) included: a retry is answered NotFound.
C11_TakeRemoves ==
    [][\A r \in Reqs :
          (Handled(r) /\ reqs[r].method = "GET" /\ Live(reqs[r].secret_key))
          => reqs[r].secret_key \notin DOMAIN secrets_cache']_vars

\* C12: lazy eviction.  A read or a delete of a key whose record is in the
\* cache with expiration <= now is answered NotFound (404) and takes that
\* record out of secrets_cache in the same step, whatever passphrase came with
\* it: the record is never served, and the delete never answers 403 for it.
C12_LazyEviction ==
    [][\A r \in Reqs :
          (Asked(r) /\ reqs[r].secret_key \in DOMAIN secrets_cache
                    /\ secrets_cache[reqs[r].secret_key].expiration <= now)
          => /\ reqs'[r].resp \in {NotFound, NotFoundOnDelete}
             /\ reqs'[r].resp # PassphraseMismatch
             /\ reqs'[r].logged = {}
             /\ reqs[r].secret_key \notin DOMAIN secrets_cache'
             /\ fate'[reqs[r].secret_key] = "evicted"]_vars

\* a delete has just found a record past its expiration, removed it and
\* answered 404
C12_Witness ==
    \E r \in Reqs :
        /\ reqs[r].pc = "done"
        /\ reqs[r].method = "DELETE"
        /\ reqs[r].resp = NotFoundOnDelete
        /\ fate[reqs[r].secret_key] = "evicted"
        /\ now > FloorTTL

\* a pass of the sweeper runs in this step
Passed == sweeper = "idle" /\ sweeper' = "sweeping"

\* C13: one pass of the sweeper removes exactly the expired records.  Right
\* after a pass that ran at clock value now, secrets_cache holds no record
\* with expiration <= now, and every record that had expiration > now is
\* still there with the fields it had; the pass adds nothing.
C13_SweepExact ==
    /\ [](sweeper = "sweeping" =>
            \A k \in DOMAIN secrets_cache : secrets_cache[k].expiration > now)
    /\ [][Passed =>
            /\ DOMAIN secrets_cache' \subseteq DOMAIN secrets_cache
            /\ \A k \in DOMAIN secrets_cache :
                  IF secrets_cache[k].expiration > now
                  THEN k \in DOMAIN secrets_cache'
                         /\ secrets_cache'[k] = secrets_cache[k]
                  ELSE k \notin DOMAIN secrets_cache']_vars

\* a pass at 301 s has just ended: one record was swept, and a record created
\* later is still in the cache
C13_Witness ==
    /\ sweeper = "sweeping"
    /\ now = FloorTTL + 1
    /\ \E k \in Keys : fate[k] = "swept"
    /\ \E j \in DOMAIN secrets_cache : born[j] > 0

\* the response of a read or delete that did what it was asked to do
Succeeded(method, resp) ==
    IF method = "GET" THEN ReturnedSecret(resp) ELSE resp = DeleteSecretResponse

\* C14: a read racing a delete.  With a live record for the key, and a read
\* of it and a delete of it that brings the right passphrase both in flight,
\* exactly one of the two succeeds and the other is answered NotFound: the
\* one whose handler runs first succeeds and takes the record out, and the
\* one whose handler runs after the other succeeded gets 404.
C14_TakeRacingDelete ==
    [][\A r, q \in Reqs :
          (r # q /\ Asked(r) /\ reqs[q].pc # "idle"
             /\ {reqs[r].method, reqs[q].method} = {"GET", "DELETE"}
             /\ reqs[q].secret_key = reqs[r].secret_key)
          => LET k == reqs[r].secret_key IN
             /\ (reqs[q].pc = "pending" /\ Live(k)
                   /\ \A d \in {r, q} :
                         reqs[d].method = "DELETE"
                            => reqs[d].passphrase = secrets_cache[k].passphrase)
                   => /\ Succeeded(reqs[r].method, reqs'[r].resp)
                      /\ k \notin DOMAIN secrets_cache'
             /\ (reqs[q].pc = "done" /\ Succeeded(reqs[q].method, reqs[q].resp))
                   => reqs'[r].resp \in {NotFound, NotFoundOnDelete}]_vars

\* C15: sweep cycles are isolated.  A pass that raises does not end the
\* sweeper: the task is always asleep between two passes (idle), in a pass,
\* or cancelled, never finished by the exception of a pass, so that a later
\* pass still runs.
C15_SweepIsolated == sweeper \in {"idle", "sweeping", "stopped"}

\* C16: sweeper cancellation.  The sweeper moves only idle -> sweeping ->
\* idle -> ... -> stopped; the step after a pass is its sleep, with no handler
\* and no cancellation between the two, so the cancellation takes effect at
\* the sleep only; and once stopped, the sweeper stays stopped and no record
\* leaves secrets_cache.
C16_Cancellation ==
    /\ [][\/ sweeper' = sweeper
          \/ sweeper = "idle" /\ sweeper' \in {"sweeping", "stopped"}
          \/ sweeper = "sweeping" /\ sweeper' = "idle"]_vars
    /\ [][sweeper = "sweeping" =>
            /\ sweeper' = "idle"
            /\ secrets_cache' = secrets_cache
            /\ reqs' = reqs]_vars
    /\ [][sweeper = "stopped" =>
            /\ sweeper' = "stopped"
            /\ secrets_cache' = secrets_cache]_vars

\* the sweeper was cancelled when a pass was due: the expired record it would
\* have removed is still in the cache
C16_Witness ==
    /\ sweeper = "stopped"
    /\ now >= wake_at
    /\ wake_at > 0
    /\ \E k \in DOMAIN secrets_cache : secrets_cache[k].expiration <= now

\* C17 as claimed: while the sweeper is not cancelled, no record is in
\* secrets_cache more than one sweep interval (60 s) after its expiration, and
\* every record that is in the cache is out of it some time later, read or
\* deleted or not.
C17_PurgedWithinInterval ==
    /\ [](sweeper # "stopped" =>
            \A k \in DOMAIN secrets_cache :
                now <= secrets_cache[k].expiration + SweepInterval)
    /\ \A k \in Keys :
          (k \in DOMAIN secrets_cache)
             ~> (k \notin DOMAIN secrets_cache \/ sweeper = "stopped")

\* C17, amended: while the sweeper is not cancelled, every record that is in
\* the cache is out of it some time later, read or deleted or not; and while
\* an expired record is in the cache the sweeper is asleep and its sleep ends
\* less than one sweep interval after the record's expiration: the pass that
\* removes the record is due within 60 s, and runs when the loop gets to it.
C17_EventualPurge ==
    /\ [](sweeper # "stopped" =>
            \A k \in DOMAIN secrets_cache :
                secrets_cache[k].expiration <= now
                   => /\ sweeper = "idle"
                      /\ wake_at < secrets_cache[k].expiration + SweepInterval)
    /\ \A k \in Keys :
          (k \in DOMAIN secrets_cache)
             ~> (k \notin DOMAIN secrets_cache \/ sweeper = "stopped")

\* a pass that ran more than 60 s after the expiration of the first records
\* has just ended, and a record that nobody read or deleted was swept
C17_Witness ==
    /\ sweeper = "sweeping"
    /\ now = FloorTTL + SweepInterval + 1
    /\ \E k \in Keys : fate[k] = "swept" /\ reads_ok[k] = 0

\* C18: operations on one key do not touch the other keys.  A read or delete
\* of key K adds no record, and removes or changes the record of no key but
\* K; K's own record is removed or left as it is; and a request answered 404
\* or 403 changes secrets_cache at most by removing K's expired record.
C18_Frame ==
    [][\A r \in Reqs :
          Asked(r) =>
            LET k == reqs[r].secret_key IN
            /\ DOMAIN secrets_cache' \subseteq DOMAIN secrets_cache
            /\ \A j \in DOMAIN secrets_cache \ {k} :
                  j \in DOMAIN secrets_cache' /\ secrets_cache'[j] = secrets_cache[j]
            /\ k \in DOMAIN secrets_cache' => secrets_cache'[k] = secrets_cache[k]
            /\ reqs'[r].resp.status_code \in {403, 404} =>
                  \/ secrets_cache' = secrets_cache
                  \/ /\ reqs'[r].resp.status_code = 404
                     /\ k \in DOMAIN secrets_cache
                     /\ secrets_cache[k].expiration <= now
                     /\ DOMAIN secrets_cache' = DOMAIN secrets_cache \ {k}]_vars

\* a read has just taken its record out of the cache, and the record of the
\* other key is still there
C18_Witness ==
    \E r \in Reqs :
        /\ reqs[r].pc = "done"
        /\ reqs[r].method = "GET"
        /\ ReturnedSecret(reqs[r].resp)
        /\ \E j \in DOMAIN secrets_cache : j # reqs[r].secret_key

\* C19: audit event ordering.  A read or delete writes a "read" or "delete"
\* row for its key only in the step that removed the key's live record, and
\* only when it is answered 200; a request answered 404, 403 or 500 writes no
\* row; the key's create was attempted before; and a key that was read or
\* deleted stays so, which leaves each key at most one such row.
C19_AuditOrdering ==
    /\ [][\A r \in Reqs :
            Asked(r) =>
              LET k == reqs[r].secret_key
                  rows == reqs'[r].logged
              IN  /\ rows \subseteq
                        {<<k, IF reqs[r].method = "GET" THEN "read" ELSE "delete">>}
                  /\ rows # {} =>
                        /\ Succeeded(reqs[r].method, reqs'[r].resp)
                        /\ Live(k)
                        /\ k \notin DOMAIN secrets_cache'
                        /\ issued[k] >= 1
                        /\ fate[k] = "stored"
                        /\ fate'[k] \in {"read", "deleted"}
                  /\ reqs'[r].resp.status_code \in {403, 404, 500} => rows = {}]_vars
    /\ [][\A k \in Keys :
            fate[k] \in {"read", "deleted"} => fate'[k] = fate[k]]_vars

====
